---- MODULE Spec2Model ----
(***************************************************************************)
(* The per-frame target tracking loop of deface/main.py (video_detect),    *)
(* with the geometry helpers it calls.  A frame is processed by            *)
(* ProcessFrame (lines 514-692: detection, acquisition, tracker update,    *)
(* recovery, disambiguation, reset policy, anonymization) and emitted by   *)
(* WriteFrame (lines 694-711).  Boxes are integer corner boxes; ratios are *)
(* exact fractions <<numerator, denominator>>; confidences are in tenths.  *)
(* Spec is the frame loop on an endless camera stream; SetupSpec and       *)
(* RunSpec are process_video_with_selective_blurring on a video file,      *)
(* before and from its call of video_detect.                               *)
(***************************************************************************)
EXTENDS Integers, Sequences, FiniteSets, TLC

(***************************************************************************)
(* Bounds of the model.                                                    *)
(***************************************************************************)
\* most face detections the face detector returns for one frame
MaxDets == 2
\* largest configured max_frames_without_faces
MaxMFWF == 3
\* frames_without_faces is not driven beyond this value
MaxCount == 4
\* most image files in the target person directory
MaxImages == 2
\* most frames of an input video file
MaxFrames == 2
\* largest coordinate of the boxes the helper functions are called with
MaxCoord == 2
\* width and height of the frames the drawing helpers are called on
FrameW == 4
FrameH == 3
\* largest mosaicsize
MaxMosaic == 2

(***************************************************************************)
(* Values.                                                                 *)
(***************************************************************************)
\* Python's None, for a box, a tracker handle or a detection
None == <<>>

\* the handle init_face_tracker returns
Tracker == <<"tracker">>

\* corner boxes <<x1, y1, x2, y2>> the tracker may report
Boxes ==
    { <<3, 0, 6, 1>>, <<4, 0, 7, 1>>, <<6, 0, 7, 1>>, <<0, 0, 7, 2>> }

\* face detections <<x1, y1, x2, y2, score>> (centerface rows)
FaceDets ==
    { <<3, 0, 6, 1, 9>>, <<4, 0, 7, 1, 9>>, <<5, 0, 7, 1, 9>>, <<0, 0, 7, 2, 9>> }

\* person detector rows <<x1, y1, x2, y2, conf, cls>>
PersonRows ==
    { <<1, 0, 2, 1, 5, 0>>, <<0, 0, 7, 2, 9, 0>>, <<6, 0, 7, 1, 3, 0>>,
      <<6, 0, 7, 1, 2, 0>>, <<0, 0, 7, 2, 9, 1>> }

\* results the person detector may return for a frame
PersonLists ==
    { <<>>,
      << <<0, 0, 7, 2, 9, 0>> >>,
      << <<1, 0, 2, 1, 5, 0>> >>,
      << <<1, 0, 2, 1, 5, 0>>, <<0, 0, 7, 2, 9, 0>> >>,
      << <<0, 0, 7, 2, 9, 0>>, <<6, 0, 7, 1, 3, 0>> >>,
      << <<0, 0, 7, 2, 9, 0>>, <<6, 0, 7, 1, 2, 0>> >>,
      << <<0, 0, 7, 2, 9, 0>>, <<0, 0, 7, 2, 9, 1>> >>,
      << <<0, 0, 7, 2, 9, 0>>, <<6, 0, 7, 1, 3, 0>>, <<1, 0, 2, 1, 5, 0>> >> }

RECURSIVE SeqsUpTo(_, _)
SeqsUpTo(S, n) ==
    IF n = 0 THEN { <<>> }
    ELSE LET shorter == SeqsUpTo(S, n - 1)
         IN  shorter \cup { Append(s, x) : s \in { t \in shorter : Len(t) = n - 1 }, x \in S }

\* results the face detector may return for a frame: up to MaxDets rows
DetLists == SeqsUpTo(FaceDets, MaxDets)

Max(a, b) == IF a >= b THEN a ELSE b

Min(a, b) == IF a <= b THEN a ELSE b

\* det[:4]
BoxOf(det) == <<det[1], det[2], det[3], det[4]>>

\* (det[0], det[1], det[2]-det[0], det[3]-det[1])
XYWH(det) == <<det[1], det[2], det[3] - det[1], det[4] - det[2]>>

\* comparison of exact fractions with positive denominators
RatioGT(r, t) == r[1] * t[2] > t[1] * r[2]

RatioLT(r, t) == r[1] * t[2] < t[1] * r[2]

(***************************************************************************)
(* Geometry helpers.                                                       *)
(***************************************************************************)
\* the intersection taken against the area of the tracking box
calculate_containment_ratio_OfTrackingBox(det_box, tracking_box) ==
    LET det_x1 == det_box[1]
        det_y1 == det_box[2]
        det_x2 == det_x1 + det_box[3]
        det_y2 == det_y1 + det_box[4]
        x1 == Max(det_x1, tracking_box[1])
        y1 == Max(det_y1, tracking_box[2])
        x2 == Min(det_x2, tracking_box[3])
        y2 == Min(det_y2, tracking_box[4])
        intersection_area == Max(0, x2 - x1) * Max(0, y2 - y1)
        track_area == (tracking_box[3] - tracking_box[1]) * (tracking_box[4] - tracking_box[2])
    IN  IF track_area > 0 THEN <<intersection_area, track_area>> ELSE <<0, 1>>

\* lines 209-232; the ratio is the pair <<intersection_area, det_area>>
calculate_containment_ratio(det_box, tracking_box) ==
    LET det_x1 == det_box[1]
        det_y1 == det_box[2]
        det_x2 == det_x1 + det_box[3]
        det_y2 == det_y1 + det_box[4]
        x1 == Max(det_x1, tracking_box[1])
        y1 == Max(det_y1, tracking_box[2])
        x2 == Min(det_x2, tracking_box[3])
        y2 == Min(det_y2, tracking_box[4])
        intersection_area == Max(0, x2 - x1) * Max(0, y2 - y1)
        det_area == (det_x2 - det_x1) * (det_y2 - det_y1)
    IN  IF det_area > 0 THEN <<intersection_area, det_area>> ELSE <<0, 1>>

\* the fraction n / d, d > 0, cut down to the integer below it
np_round_Floor(n, d) == n \div d

\* line 319, np.round of the fraction n / d, d > 0: the nearest integer, a
\* tie going to the even one
np_round(n, d) ==
    LET q == n \div d
        r == n - q * d
    IN  IF 2 * r < d THEN q
        ELSE IF 2 * r > d THEN q + 1
        ELSE IF q % 2 = 0 THEN q ELSE q + 1

\* lines 312-319; mask_scale is the fraction <<numerator, denominator>>
scale_bb(x1, y1, x2, y2, mask_scale) ==
    LET num == mask_scale[1] - mask_scale[2]
        den == mask_scale[2]
        h == y2 - y1
        w == x2 - x1
    IN  << np_round(x1 * den - w * num, den),
           np_round(y1 * den - h * num, den),
           np_round(x2 * den + w * num, den),
           np_round(y2 * den + h * num, den) >>

\* lines 374-380 of anonymize_frame: the box handed to draw_det for one
\* detection on a frame of the given width and height
anonymize_box(det, mask_scale, width, height) ==
    LET bb == scale_bb(det[1], det[2], det[3], det[4], mask_scale)
        y1 == Max(0, bb[2])
        y2 == Min(height - 1, bb[4])
        x1 == Max(0, bb[1])
        x2 == Min(width - 1, bb[3])
    IN  <<x1, y1, x2, y2>>

(***************************************************************************)
(* Drawing.  A frame is a function from the row y to the function from the *)
(* column x to the pixel's colour.                                         *)
(***************************************************************************)
\* line 327: ovcolor (0, 0, 0)
ovcolor == 0

\* cv2.rectangle(frame, pt1, pt2, color, -1): the pixels between the two
\* corners, both included, take the colour
cv2_rectangle(frame, pt1, pt2, color) ==
    [ y \in DOMAIN frame |->
        [ x \in DOMAIN frame[y] |->
            IF /\ Min(pt1[1], pt2[1]) <= x /\ x <= Max(pt1[1], pt2[1])
               /\ Min(pt1[2], pt2[2]) <= y /\ y <= Max(pt1[2], pt2[2])
            THEN color ELSE frame[y][x] ] ]

\* range(start, stop, step), step > 0
RECURSIVE range(_, _, _)
range(start, stop, step) ==
    IF start >= stop THEN <<>> ELSE <<start>> \o range(start + step, stop, step)

\* the colour of a block taken from the corner of the block after it
MosaicColor_NextBlock(frame, x, y, mosaicsize) ==
    frame[Min(y + mosaicsize, FrameH - 1)][Min(x + mosaicsize, FrameW - 1)]

\* line 357: the colour of a block is that of its first pixel
MosaicColor(frame, x, y, mosaicsize) == frame[y][x]

\* lines 354-358, the inner loop over x for one y
RECURSIVE MosaicRow(_, _, _, _, _, _)
MosaicRow(frame, xs, y, x2, y2, mosaicsize) ==
    IF xs = <<>> THEN frame
    ELSE LET x == Head(xs)
             pt1 == <<x, y>>
             pt2 == <<Min(x2, x + mosaicsize - 1), Min(y2, y + mosaicsize - 1)>>
             color == MosaicColor(frame, x, y, mosaicsize)
         IN  MosaicRow(cv2_rectangle(frame, pt1, pt2, color),
                       Tail(xs), y, x2, y2, mosaicsize)

\* lines 353-358, the loop over y
RECURSIVE MosaicRows(_, _, _, _, _, _)
MosaicRows(frame, ys, x1, x2, y2, mosaicsize) ==
    IF ys = <<>> THEN frame
    ELSE MosaicRows(MosaicRow(frame, range(x1, x2, mosaicsize), Head(ys), x2, y2,
                              mosaicsize),
                    Tail(ys), x1, x2, y2, mosaicsize)

\* lines 322-364 for the modes solid, mosaic and none: the frame after
\* the call
draw_det(frame, x1, y1, x2, y2, replacewith, mosaicsize) ==
    IF replacewith = "solid"
    THEN cv2_rectangle(frame, <<x1, y1>>, <<x2, y2>>, ovcolor)
    ELSE IF replacewith = "mosaic"
    THEN MosaicRows(frame, range(y1, y2, mosaicsize), x1, x2, y2, mosaicsize)
    ELSE frame

boxes_intersect(box1, box2) ==
    LET x1_1 == box1[1]
        y1_1 == box1[2]
        x2_1 == x1_1 + box1[3]
        y2_1 == y1_1 + box1[4]
    IN  ~(x2_1 < box2[1] \/ x1_1 > box2[3] \/ y2_1 < box2[2] \/ y1_1 > box2[4])

CONTAINMENT_THRESHOLD == <<1, 2>>

\* the ratio of a face detection against a corner box, as video_detect calls it
Containment(det, box) == calculate_containment_ratio(XYWH(det), box)

(***************************************************************************)
(* Collaborators of tracking.py and recognition.py.                        *)
(***************************************************************************)
\* what find_person_in_frame may return as person_bbox: None (no face clears
\* the threshold) or the box of a person-class row
find_person_in_frame == { None } \cup { BoxOf(p) : p \in { q \in PersonRows : q[6] = 0 } }

\* init_face_tracker(frame, bbox) -> (handle, normalized bbox); an integer
\* corner box inside the frame is already normalized
init_face_tracker(bbox) == <<Tracker, bbox>>

\* what update_face_tracker may return: the tracked corner box, or None when
\* the tracker reports failure
update_face_tracker == { None } \cup Boxes

\* recover_tracking(frame, prev_bbox, dets): the box of a detection with the
\* highest containment ratio against prev_bbox among those above 0.5, or None;
\* no tie-break is documented, so every detection of highest ratio may be it
recover_tracking(prev, ds) ==
    LET cands == { i \in 1..Len(ds) : RatioGT(Containment(ds[i], prev), <<1, 2>>) }
        best == { i \in cands :
                    \A j \in cands : ~RatioLT(Containment(ds[i], prev), Containment(ds[j], prev)) }
    IN  IF cands = {} THEN { None } ELSE { BoxOf(ds[i]) : i \in best }

(***************************************************************************)
(* Decisions of the frame loop.                                            *)
(***************************************************************************)
\* acquisition attempted on a frame without detections
AcquisitionDue_NoDetections(found, tracker, ds) == ~found \/ tracker = None

\* acquisition attempted whatever the tracking state
AcquisitionDue_WhileTracking(found, tracker, ds) == Len(ds) > 0

\* line 523: acquisition is attempted
AcquisitionDue(found, tracker, ds) == (~found \/ tracker = None) /\ Len(ds) > 0

\* lines 583-590: a detection counts as inside the tracked region
InTracked(det, tracked) == RatioGT(Containment(det, tracked), CONTAINMENT_THRESHOLD)

\* the filter with its comparison inverted
KeptForAnonymization_Inverted(det, tracked) ==
    RatioGT(Containment(det, tracked), CONTAINMENT_THRESHOLD)

\* lines 605-612 and 637-644: a detection stays in dets for anonymization
KeptForAnonymization(det, tracked) == RatioLT(Containment(det, tracked), CONTAINMENT_THRESHOLD)

\* line 623: a person detector row is a person box
IsPersonBox(result) == result[6] = 0 /\ result[5] >= 3

\* lines 627-630
CountIntersecting(person_boxes, tracked) ==
    Cardinality({ i \in 1..Len(person_boxes) : boxes_intersect(person_boxes[i], tracked) })

\* the person count compared against 2
SinglePersonCase_UpToTwo(intersecting_persons) == intersecting_persons <= 2

\* line 636: the in-region faces are all taken for the target
SinglePersonCase(intersecting_persons) == intersecting_persons <= 1

\* line 665: a detection is taken for the recovered one
MatchesRecovered(det, recovered_bbox) == RatioGT(Containment(det, recovered_bbox), <<1, 2>>)

\* the reset test with > for >=
ResetDue_Strict(disable, count, maxFrames) == ~disable /\ count > maxFrames

\* the reset test without the disable_tracker_reset flag
ResetDue_IgnoringDisable(disable, count, maxFrames) == count >= maxFrames

\* the reset test one frame early
ResetDue_Early(disable, count, maxFrames) == ~disable /\ count + 1 >= maxFrames

\* the disable flag read the wrong way round
ResetDue_InvertedDisable(disable, count, maxFrames) == disable /\ count >= maxFrames

\* line 678
ResetDue(disable, count, maxFrames) == ~disable /\ count >= maxFrames

(***************************************************************************)
(* State of video_detect.                                                  *)
(***************************************************************************)
VARIABLES
    face_tracker,               \* line 502: None or the active tracker handle
    frames_without_faces,       \* line 503
    target_person_found,        \* line 504
    prev_bbox,                  \* last tracked box (unset until the first init)
    MAX_FRAMES_WITHOUT_FACES,   \* line 512, the max_frames_without_faces argument
    disable_tracker_reset,      \* line 416, argument
    pc,                         \* "read": between frames; "write": frame anonymized
    dets,                       \* the list handed to anonymize_frame (line 688)
    fr,                         \* what happened in the frame just processed
    lostRun,                    \* length of the current run of lost frames
    stage,                      \* position in process_video_with_selective_blurring
                                \* and video_detect
    video_exists,               \* os.path.exists(video_path), line 85
    target_dir_exists,          \* os.path.exists(target_person_dir), line 88
    target_images,              \* the image files of target_person_dir, line 140
    created,                    \* models constructed so far, lines 112-134
    target_embeddings,          \* len(target_embeddings), lines 139-160
    video_detect_called,        \* line 169 was reached
    opath,                      \* opath is not None
    reader,                     \* "none", "open" or "closed"
    writer,                     \* "none", "open" or "closed"
    nframes,                    \* reader.count_frames(), None on a camera
    read_count,                 \* frames taken from read_iter
    written,                    \* frames appended to the writer, by input number
    vd_exit,                    \* how video_detect was left
    outcome,                    \* how process_video_with_selective_blurring ended
    raised_at,                  \* number of the frame in which a collaborator raised
    call,                       \* a call of one of the helper functions, with its
                                \* arguments and, once made, its result
    runs,                       \* the tracking state of each of the concurrent
                                \* runs of the API server
    api                         \* the /process-video requests in progress and
                                \* the input directory they share

trackvars ==
    <<face_tracker, frames_without_faces, target_person_found, prev_bbox,
      MAX_FRAMES_WITHOUT_FACES, disable_tracker_reset, pc, dets, fr, lostRun>>

setupvars ==
    <<video_exists, target_dir_exists, target_images, created, target_embeddings,
      video_detect_called, opath, nframes>>

vars ==
    <<face_tracker, frames_without_faces, target_person_found, prev_bbox,
      MAX_FRAMES_WITHOUT_FACES, disable_tracker_reset, pc, dets, fr, lostRun,
      stage, video_exists, target_dir_exists, target_images, created,
      target_embeddings, video_detect_called, opath, reader, writer, nframes,
      read_count, written, vd_exit, outcome, raised_at, call, runs, api>>

\* state outside a single run of the pipeline
sidevars == <<call, runs, api>>

\* no helper call in progress
NoCall == [ fn |-> "none" ]

\* no concurrent runs
NoRuns == <<>>

\* no request in progress
NoApi == <<>>

\* fr between frames
NoFrame ==
    [ detected |-> <<>>, start_tracking |-> FALSE, start_count |-> 0,
      matcher |-> "skipped", update |-> "skipped",
      recovery1 |-> "none", recovered1 |-> None,
      tracked_bbox |-> None, n_in_tracked |-> -1,
      person_calls |-> 0, person_boxes |-> <<>>, intersecting_persons |-> -1,
      recovery2 |-> "none", recovered2 |-> None, count_peak |-> -1,
      start_tracker |-> None, person_rows |-> <<>> ]

\* SEARCHING / TRACKING, as line 523 reads the two variables
Status(found, tracker) == IF ~found \/ tracker = None THEN "SEARCHING" ELSE "TRACKING"

status == Status(target_person_found, face_tracker)

(***************************************************************************)
(* One iteration of the frame loop, lines 519-685, as a function of the    *)
(* state at the start of the frame and of what the collaborators return.  *)
(***************************************************************************)
\* Step 2 with a tracker started on the first face when the matcher returns
\* nothing
Step2_AcquireWithoutMatch(found, tracker, prev, ds, m) ==
    IF AcquisitionDue(found, tracker, ds)
    THEN LET bbox == IF m # None THEN m ELSE BoxOf(ds[1])
         IN  [ face_tracker |-> init_face_tracker(bbox)[1],
               prev_bbox |-> init_face_tracker(bbox)[2],
               target_person_found |-> TRUE,
               matcher |-> IF m # None THEN "acquired" ELSE "none",
               person_calls |-> 1 ]
    ELSE [ face_tracker |-> tracker, prev_bbox |-> prev,
           target_person_found |-> found,
           matcher |-> "skipped", person_calls |-> 0 ]

\* Step 2, lines 523-548.  m: person_bbox returned by find_person_in_frame
Step2(found, tracker, prev, ds, m) ==
    IF AcquisitionDue(found, tracker, ds)
    THEN IF m # None
         THEN [ face_tracker |-> init_face_tracker(m)[1],
                prev_bbox |-> init_face_tracker(m)[2],
                target_person_found |-> TRUE,
                matcher |-> "acquired", person_calls |-> 1 ]
         ELSE [ face_tracker |-> tracker, prev_bbox |-> prev,
                target_person_found |-> found,
                matcher |-> "none", person_calls |-> 1 ]
    ELSE [ face_tracker |-> tracker, prev_bbox |-> prev,
           target_person_found |-> found,
           matcher |-> "skipped", person_calls |-> 0 ]

\* Step 3 with target_person_found left set when the update and the recovery
\* both fail
Step3Update_FoundKept(s2, u, r1) ==
    IF s2.face_tracker = None
    THEN s2 @@ [ tracked_bbox |-> None, update |-> "skipped",
                 recovery1 |-> "none", recovered1 |-> None ]
    ELSE IF u # None
    THEN s2 @@ [ tracked_bbox |-> u, update |-> "ok",
                 recovery1 |-> "none", recovered1 |-> None ]
    ELSE IF r1 # None
    THEN [ s2 EXCEPT !.face_tracker = init_face_tracker(r1)[1],
                     !.prev_bbox = init_face_tracker(r1)[2] ]
         @@ [ tracked_bbox |-> init_face_tracker(r1)[2], update |-> "failed",
              recovery1 |-> "ok", recovered1 |-> r1 ]
    ELSE [ s2 EXCEPT !.face_tracker = None ]
         @@ [ tracked_bbox |-> None, update |-> "failed",
              recovery1 |-> "failed", recovered1 |-> None ]

\* Step 3 with the tracker kept when the update and the recovery both fail
Step3Update_KeepTracker(s2, u, r1) ==
    IF s2.face_tracker = None
    THEN s2 @@ [ tracked_bbox |-> None, update |-> "skipped",
                 recovery1 |-> "none", recovered1 |-> None ]
    ELSE IF u # None
    THEN s2 @@ [ tracked_bbox |-> u, update |-> "ok",
                 recovery1 |-> "none", recovered1 |-> None ]
    ELSE IF r1 # None
    THEN [ s2 EXCEPT !.face_tracker = init_face_tracker(r1)[1],
                     !.prev_bbox = init_face_tracker(r1)[2] ]
         @@ [ tracked_bbox |-> init_face_tracker(r1)[2], update |-> "failed",
              recovery1 |-> "ok", recovered1 |-> r1 ]
    ELSE s2 @@ [ tracked_bbox |-> None, update |-> "failed",
                 recovery1 |-> "failed", recovered1 |-> None ]

\* Step 3, lines 551-571.  u: result of update_face_tracker; r1: result of
\* recover_tracking after a failed update
Step3Update(s2, u, r1) ==
    IF s2.face_tracker = None
    THEN s2 @@ [ tracked_bbox |-> None, update |-> "skipped",
                 recovery1 |-> "none", recovered1 |-> None ]
    ELSE IF u # None
    THEN s2 @@ [ tracked_bbox |-> u, update |-> "ok",
                 recovery1 |-> "none", recovered1 |-> None ]
    ELSE IF r1 # None
    THEN [ s2 EXCEPT !.face_tracker = init_face_tracker(r1)[1],
                     !.prev_bbox = init_face_tracker(r1)[2] ]
         @@ [ tracked_bbox |-> init_face_tracker(r1)[2], update |-> "failed",
              recovery1 |-> "ok", recovered1 |-> r1 ]
    ELSE [ s2 EXCEPT !.face_tracker = None, !.target_person_found = FALSE ]
         @@ [ tracked_bbox |-> None, update |-> "failed",
              recovery1 |-> "failed", recovered1 |-> None ]

\* lines 620-624
PersonBoxes(person_detection_results) ==
    LET rows == SelectSeq(person_detection_results, IsPersonBox)
    IN  [ i \in 1..Len(rows) |-> BoxOf(rows[i]) ]

\* the person detector run again although the frame holds a result
PersonDetectorCalls_Again(calls) == calls + 1

\* lines 617-618: the person detector runs only if the frame holds no result
PersonDetectorCalls(calls) == IF calls = 0 THEN 1 ELSE calls

\* dets without the detections whose box is the recovered one
WithoutRecovered_SameBox(ds, recovered_bbox) ==
    SelectSeq(ds, LAMBDA d : BoxOf(d) # recovered_bbox)

\* lines 661-670: dets without the detection taken for the recovered one
WithoutRecovered(ds, recovered_bbox) ==
    LET hits == { i \in 1..Len(ds) : MatchesRecovered(ds[i], recovered_bbox) }
    IN  IF hits = {} THEN ds
        ELSE LET recovered_det == ds[CHOOSE i \in hits : \A j \in hits : i <= j]
             IN  SelectSeq(ds, LAMBDA d : d # recovered_det)

\* lines 573-685.  r2: result of recover_tracking when no face is in the
\* tracked region; pr: rows of the person detector
Step3Disambiguate(s3, count, ds, r2, pr, maxFrames, disable) ==
    IF s3.tracked_bbox = None
    THEN s3 @@ [ dets |-> ds, frames_without_faces |-> count, n_in_tracked |-> -1,
                 person_boxes |-> <<>>, intersecting_persons |-> -1,
                 recovery2 |-> "none", recovered2 |-> None, count_peak |-> -1 ]
    ELSE
    LET tb == s3.tracked_bbox
        dets_in_tracked == SelectSeq(ds, LAMBDA d : InTracked(d, tb))
        filtered == SelectSeq(ds, LAMBDA d : KeptForAnonymization(d, tb))
        n == Len(dets_in_tracked)
    IN  IF n = 1
        THEN [ s3 EXCEPT !.prev_bbox = tb ]
             @@ [ dets |-> filtered, frames_without_faces |-> 0, n_in_tracked |-> n,
                  person_boxes |-> <<>>, intersecting_persons |-> -1,
                  recovery2 |-> "none", recovered2 |-> None, count_peak |-> -1 ]
        ELSE IF n > 1
        THEN LET person_boxes == PersonBoxes(pr)
                 intersecting_persons == CountIntersecting(person_boxes, tb)
             IN  [ s3 EXCEPT !.prev_bbox = tb,
                             !.person_calls = PersonDetectorCalls(@) ]
                 @@ [ dets |-> IF SinglePersonCase(intersecting_persons)
                               THEN filtered ELSE ds,
                      frames_without_faces |-> 0, n_in_tracked |-> n,
                      person_boxes |-> person_boxes,
                      intersecting_persons |-> intersecting_persons,
                      recovery2 |-> "none", recovered2 |-> None, count_peak |-> -1 ]
        ELSE LET recovered == r2 # None
                 tracker1 == IF recovered THEN init_face_tracker(r2)[1] ELSE s3.face_tracker
                 tracked1 == IF recovered THEN init_face_tracker(r2)[2] ELSE tb
                 count1 == (IF recovered THEN 0 ELSE count) + 1
                 reset == ResetDue(disable, count1, maxFrames)
             IN  [ s3 EXCEPT !.face_tracker = IF reset THEN None ELSE tracker1,
                             !.target_person_found = IF reset THEN FALSE ELSE @,
                             !.prev_bbox = tracked1 ]
                 @@ [ dets |-> IF recovered THEN WithoutRecovered(ds, r2) ELSE ds,
                      frames_without_faces |-> IF reset THEN 0 ELSE count1,
                      n_in_tracked |-> n,
                      person_boxes |-> <<>>, intersecting_persons |-> -1,
                      recovery2 |-> IF recovered THEN "ok" ELSE "failed",
                      recovered2 |-> r2, count_peak |-> count1 ]

\* the run of consecutive frames, begun in TRACKING with a zero counter, in
\* which the update succeeded, no face was in the region and recovery failed
NextLostRun(run, f) ==
    IF f.update = "ok" /\ f.n_in_tracked = 0 /\ f.recovery2 = "failed" /\ f.start_tracking
    THEN IF f.start_count = 0 THEN 1
         ELSE IF run >= 1 THEN run + 1 ELSE 0
    ELSE 0

(***************************************************************************)
(* The run around the frame loop: process_video_with_selective_blurring    *)
(* (lines 84-207) and the opening and closing of video_detect (438-499,    *)
(* 713-716).                                                               *)
(***************************************************************************)
\* lines 112, 123, 134
Models == {"person_detector", "extractor", "centerface"}

\* what one target image yields: cv2.imread returns None (line 152), the
\* embedding extraction raises (line 159), it finds no person, or it returns
\* one embedding (line 155)
ImageOutcomes == {"unreadable", "raises", "no_person", "person"}

TargetDirs == SeqsUpTo(ImageOutcomes, MaxImages)

\* validation that only looks at the video path
InputsValid_VideoOnly(video, dir) == video

\* lines 85-89
InputsValid(video, dir) == video /\ dir

\* lines 148-160: len(target_embeddings) after the loop over the images
RECURSIVE CollectEmbeddings(_)
CollectEmbeddings(images) ==
    IF images = <<>> THEN 0
    ELSE (IF Head(images) = "person" THEN 1 ELSE 0) + CollectEmbeddings(Tail(images))

\* the embedding check left out
EmbeddingsMissing_Never(n) == FALSE

\* line 162: not target_embeddings
EmbeddingsMissing(n) == n = 0

\* line 469: nframes = None, the frame count of a camera stream
NoCount == -1

\* lines 467-472: the loop has another frame to take
FrameAvailable(total, taken) == total = NoCount \/ taken < total

\* the frame appended when no output path is set
WriterAfterFrame_Inverted(w, k, out) == IF out THEN w ELSE Append(w, k)

\* lines 695-696
WriterAfterFrame(w, k, out) == IF out THEN Append(w, k) ELSE w

\* every way out of video_detect reported as success
ProcessVideoOutcome_Swallowing(exit) == "success"

\* lines 168-207: what process_video_with_selective_blurring makes of the
\* way video_detect was left
ProcessVideoOutcome(exit) ==
    CASE exit = "completed" -> "success"
      [] exit = "returned_early" -> "success"
      [] exit = "writer_error" -> "raised"
      [] exit = "frame_error" -> "raised"
      [] exit = "interrupt" -> "KeyboardInterrupt"

(***************************************************************************)
(* Actions.                                                                *)
(***************************************************************************)
\* lines 502-512: the tracking state when the frame loop is entered
InitTracking ==
    /\ face_tracker = None
    /\ frames_without_faces = 0
    /\ target_person_found = FALSE
    /\ prev_bbox = None
    /\ MAX_FRAMES_WITHOUT_FACES \in 1..MaxMFWF
    /\ disable_tracker_reset \in BOOLEAN
    /\ pc = "read"
    /\ dets = <<>>
    /\ fr = NoFrame
    /\ lostRun = 0

\* video_detect at the head of its frame loop (line 514) on a camera stream
\* (cam, lines 468-470: nframes is None, the stream does not end) with no
\* output path
Init ==
    /\ InitTracking
    /\ call = NoCall
    /\ runs = NoRuns
    /\ api = NoApi
    /\ stage = "loop"
    /\ video_exists = TRUE
    /\ target_dir_exists = TRUE
    /\ target_images = <<"person">>
    /\ created = Models
    /\ target_embeddings = 1
    /\ video_detect_called = TRUE
    /\ opath = FALSE
    /\ reader = "open"
    /\ writer = "none"
    /\ nframes = NoCount
    /\ read_count = 0
    /\ written = <<>>
    /\ vd_exit = "none"
    /\ outcome = "none"
    /\ raised_at = 0

\* what the frame leaves in fr
FrameRecord(out, ds, started_tracking, start_count, start_tracker, pr) ==
    [ detected |-> ds,
      start_tracker |-> start_tracker,
      person_rows |-> IF out.n_in_tracked > 1 THEN pr ELSE <<>>,
      start_tracking |-> started_tracking,
      start_count |-> start_count,
      matcher |-> out.matcher, update |-> out.update,
      recovery1 |-> out.recovery1, recovered1 |-> out.recovered1,
      tracked_bbox |-> out.tracked_bbox,
      n_in_tracked |-> out.n_in_tracked,
      person_calls |-> out.person_calls,
      person_boxes |-> out.person_boxes,
      intersecting_persons |-> out.intersecting_persons,
      recovery2 |-> out.recovery2, recovered2 |-> out.recovered2,
      count_peak |-> out.count_peak ]

\* number of detections inside the tracked region, -1 without a tracked box
InTrackedCount(ds, tracked) ==
    IF tracked = None THEN -1
    ELSE Len(SelectSeq(ds, LAMBDA d : InTracked(d, tracked)))

\* lines 514-692: one frame is read, classified and anonymized
ProcessFrame ==
    /\ stage = "loop"
    /\ pc = "read"
    /\ FrameAvailable(nframes, read_count)
    /\ frames_without_faces < MaxCount
    /\ read_count' = IF nframes = NoCount THEN read_count ELSE read_count + 1
    /\ \E ds \in DetLists :
       \E m \in (IF AcquisitionDue(target_person_found, face_tracker, ds)
                 THEN find_person_in_frame ELSE { None }) :
       \E s2 \in { Step2(target_person_found, face_tracker, prev_bbox, ds, m) } :
       \E u \in (IF s2.face_tracker # None THEN update_face_tracker ELSE { None }) :
       \E r1 \in (IF s2.face_tracker # None /\ u = None
                  THEN recover_tracking(s2.prev_bbox, ds) ELSE { None }) :
       \E s3 \in { Step3Update(s2, u, r1) } :
       \E n \in { InTrackedCount(ds, s3.tracked_bbox) } :
       \E pr \in (IF n > 1 THEN PersonLists ELSE { <<>> }) :
       \E r2 \in (IF n = 0 THEN recover_tracking(s3.prev_bbox, ds) ELSE { None }) :
       \E out \in { Step3Disambiguate(s3, frames_without_faces, ds, r2, pr,
                                      MAX_FRAMES_WITHOUT_FACES, disable_tracker_reset) } :
       \E f \in { FrameRecord(out, ds, status = "TRACKING", frames_without_faces,
                                face_tracker, pr) } :
          /\ face_tracker' = out.face_tracker
          /\ frames_without_faces' = out.frames_without_faces
          /\ target_person_found' = out.target_person_found
          /\ prev_bbox' = out.prev_bbox
          /\ dets' = out.dets
          /\ fr' = f
          /\ lostRun' = NextLostRun(lostRun, f)
          /\ pc' = "write"
    /\ UNCHANGED <<MAX_FRAMES_WITHOUT_FACES, disable_tracker_reset>>
    /\ UNCHANGED <<setupvars, stage, reader, writer, written, vd_exit, outcome,
                   raised_at>>
    /\ UNCHANGED sidevars

\* lines 694-711: the frame is emitted and the loop takes the next one
WriteFrame ==
    /\ stage = "loop"
    /\ pc = "write"
    /\ pc' = "read"
    /\ dets' = <<>>
    /\ fr' = NoFrame
    /\ written' = WriterAfterFrame(written, read_count, opath)
    /\ UNCHANGED <<face_tracker, frames_without_faces, target_person_found, prev_bbox,
                   MAX_FRAMES_WITHOUT_FACES, disable_tracker_reset, lostRun>>
    /\ UNCHANGED <<setupvars, stage, reader, writer, read_count, vd_exit, outcome,
                   raised_at>>
    /\ UNCHANGED sidevars

Next == ProcessFrame \/ WriteFrame

Spec == Init /\ [][Next]_vars

(***************************************************************************)
(* process_video_with_selective_blurring on a video file.  SetupSpec is    *)
(* the function from its call to the call of video_detect (lines 84-169),  *)
(* over every input; RunSpec is the function from the call of video_detect *)
(* to its end (lines 167-207, with video_detect on a file), for inputs     *)
(* that passed the setup.                                                  *)
(***************************************************************************)
\* the call of process_video_with_selective_blurring
SetupInit ==
    /\ InitTracking
    /\ call = NoCall
    /\ runs = NoRuns
    /\ api = NoApi
    /\ stage = "validate"
    /\ video_exists \in BOOLEAN
    /\ target_dir_exists \in BOOLEAN
    /\ target_images \in TargetDirs
    /\ target_dir_exists \/ target_images = <<>>
    /\ created = {}
    /\ target_embeddings = 0
    /\ video_detect_called = FALSE
    /\ opath \in BOOLEAN
    /\ reader = "none"
    /\ writer = "none"
    /\ nframes = NoCount
    /\ read_count = 0
    /\ written = <<>>
    /\ vd_exit = "none"
    /\ outcome = "none"
    /\ raised_at = 0

\* lines 84-165 have passed: the paths exist, the models are loaded and an
\* embedding was extracted; line 169 is next
RunInit ==
    /\ InitTracking
    /\ call = NoCall
    /\ runs = NoRuns
    /\ api = NoApi
    /\ stage = "open"
    /\ video_exists = TRUE
    /\ target_dir_exists = TRUE
    /\ target_images = <<"person">>
    /\ created = Models
    /\ target_embeddings = 1
    /\ video_detect_called = FALSE
    /\ opath \in BOOLEAN
    /\ reader = "none"
    /\ writer = "none"
    /\ nframes = NoCount
    /\ read_count = 0
    /\ written = <<>>
    /\ vd_exit = "none"
    /\ outcome = "none"
    /\ raised_at = 0

\* lines 85-89
ValidateInputs ==
    /\ stage = "validate"
    /\ IF InputsValid(video_exists, target_dir_exists)
       THEN stage' = "models" /\ outcome' = outcome
       ELSE stage' = "ended" /\ outcome' = "FileNotFoundError"
    /\ UNCHANGED <<trackvars, setupvars, reader, writer, read_count, written,
                   vd_exit, raised_at>>
    /\ UNCHANGED sidevars

\* lines 112-134
CreateModels ==
    /\ stage = "models"
    /\ created' = Models
    /\ stage' = "targets"
    /\ UNCHANGED <<trackvars, video_exists, target_dir_exists, target_images,
                   target_embeddings, video_detect_called, opath, nframes,
                   reader, writer, read_count, written, vd_exit, outcome, raised_at>>
    /\ UNCHANGED sidevars

\* lines 138-165; os.listdir of a missing directory raises FileNotFoundError
LoadTargetPerson ==
    /\ stage = "targets"
    /\ IF ~target_dir_exists
       THEN /\ stage' = "ended"
            /\ outcome' = "FileNotFoundError"
            /\ target_embeddings' = target_embeddings
       ELSE IF target_images = <<>>
       THEN /\ stage' = "ended"
            /\ outcome' = "ValueError"
            /\ target_embeddings' = target_embeddings
       ELSE /\ target_embeddings' = CollectEmbeddings(target_images)
            /\ IF EmbeddingsMissing(CollectEmbeddings(target_images))
               THEN stage' = "ended" /\ outcome' = "ValueError"
               ELSE stage' = "open" /\ outcome' = outcome
    /\ UNCHANGED <<trackvars, video_exists, target_dir_exists, target_images,
                   created, video_detect_called, opath, nframes,
                   reader, writer, read_count, written, vd_exit, raised_at>>
    /\ UNCHANGED sidevars

\* line 169 and lines 438-475: video_detect is entered and opens the input
OpenReader ==
    /\ stage = "open"
    /\ video_detect_called' = TRUE
    /\ \E opened \in {"ok", "no_reader", "no_metadata"} :
          IF opened = "ok"
          THEN /\ reader' = "open"
               /\ nframes' \in 0..MaxFrames
               /\ stage' = "writer"
               /\ UNCHANGED <<vd_exit, outcome>>
          ELSE /\ reader' = IF opened = "no_metadata" THEN "open" ELSE "none"
               /\ vd_exit' = "returned_early"
               /\ outcome' = ProcessVideoOutcome("returned_early")
               /\ stage' = "ended"
               /\ UNCHANGED nframes
    /\ UNCHANGED <<trackvars, video_exists, target_dir_exists, target_images,
                   created, target_embeddings, opath, writer, read_count, written,
                   raised_at>>
    /\ UNCHANGED sidevars

\* lines 479-499
CreateWriter ==
    /\ stage = "writer"
    /\ IF opath
       THEN \E ok \in BOOLEAN :
               IF ok
               THEN /\ writer' = "open"
                    /\ stage' = "loop"
                    /\ UNCHANGED <<vd_exit, outcome>>
               ELSE /\ vd_exit' = "writer_error"
                    /\ outcome' = ProcessVideoOutcome("writer_error")
                    /\ stage' = "ended"
                    /\ UNCHANGED writer
       ELSE /\ stage' = "loop"
            /\ UNCHANGED <<writer, vd_exit, outcome>>
    /\ UNCHANGED <<trackvars, setupvars, reader, read_count, written, raised_at>>
    /\ UNCHANGED sidevars

\* lines 514-688: a collaborator (face detector, person detector, Target
\* Matcher, tracker, recovery) raises while the frame is processed
FrameRaises ==
    /\ stage = "loop"
    /\ pc = "read"
    /\ FrameAvailable(nframes, read_count)
    /\ read_count' = read_count + 1
    /\ raised_at' = read_count + 1
    /\ vd_exit' = "frame_error"
    /\ outcome' = ProcessVideoOutcome("frame_error")
    /\ stage' = "ended"
    /\ UNCHANGED <<trackvars, setupvars, reader, writer, written>>
    /\ UNCHANGED sidevars

\* a KeyboardInterrupt during the frame loop, taken while the next frame is
\* awaited
Interrupt ==
    /\ stage = "loop"
    /\ pc = "read"
    /\ vd_exit' = "interrupt"
    /\ outcome' = ProcessVideoOutcome("interrupt")
    /\ stage' = "ended"
    /\ UNCHANGED <<trackvars, setupvars, reader, writer, read_count, written,
                   raised_at>>
    /\ UNCHANGED sidevars

\* read_iter is exhausted: lines 713-716, then lines 196-203
CloseAndReturn ==
    /\ stage = "loop"
    /\ pc = "read"
    /\ ~FrameAvailable(nframes, read_count)
    /\ reader' = "closed"
    /\ writer' = IF opath THEN "closed" ELSE writer
    /\ vd_exit' = "completed"
    /\ outcome' = ProcessVideoOutcome("completed")
    /\ stage' = "ended"
    /\ UNCHANGED <<trackvars, setupvars, read_count, written, raised_at>>
    /\ UNCHANGED sidevars

SetupNext ==
    \/ ValidateInputs
    \/ CreateModels
    \/ LoadTargetPerson
    \/ OpenReader

SetupSpec == SetupInit /\ [][SetupNext]_vars

RunNext ==
    \/ OpenReader
    \/ CreateWriter
    \/ ProcessFrame
    \/ WriteFrame
    \/ FrameRaises
    \/ Interrupt
    \/ CloseAndReturn

RunSpec == RunInit /\ [][RunNext]_vars

(***************************************************************************)
(* The helper functions on their own: a call is drawn with its arguments   *)
(* and made once (HelperSpec).                                             *)
(***************************************************************************)
pipelinevars ==
    <<trackvars, setupvars, stage, reader, writer, read_count, written, vd_exit,
      outcome, raised_at>>

\* no video is being processed
NoPipeline ==
    /\ face_tracker = None
    /\ frames_without_faces = 0
    /\ target_person_found = FALSE
    /\ prev_bbox = None
    /\ MAX_FRAMES_WITHOUT_FACES = 1
    /\ disable_tracker_reset = FALSE
    /\ pc = "read"
    /\ dets = <<>>
    /\ fr = NoFrame
    /\ lostRun = 0
    /\ stage = "none"
    /\ video_exists = TRUE
    /\ target_dir_exists = TRUE
    /\ target_images = <<>>
    /\ created = {}
    /\ target_embeddings = 0
    /\ video_detect_called = FALSE
    /\ opath = FALSE
    /\ reader = "none"
    /\ writer = "none"
    /\ nframes = NoCount
    /\ read_count = 0
    /\ written = <<>>
    /\ vd_exit = "none"
    /\ outcome = "none"
    /\ raised_at = 0

\* det_box arguments [x, y, w, h], also with zero or negative extent
XYWHBoxes ==
    { <<x, y, w, h>> : x \in 0..(MaxCoord - 1), y \in 0..(MaxCoord - 1),
                       w \in -1..MaxCoord, h \in -1..MaxCoord }

\* tracking_box arguments [x1, y1, x2, y2]
CornerBoxes ==
    { <<x1, y1, x2, y2>> : x1 \in 0..MaxCoord, y1 \in 0..MaxCoord,
                           x2 \in 0..MaxCoord, y2 \in 0..MaxCoord }

ContainmentCalls ==
    { [ fn |-> "calculate_containment_ratio", args |-> <<d, t>>,
        done |-> FALSE, result |-> None ] : d \in XYWHBoxes, t \in CornerBoxes }

\* lines 209-232
CallContainment ==
    /\ call.fn = "calculate_containment_ratio"
    /\ ~call.done
    /\ call' = [ call EXCEPT !.done = TRUE,
                             !.result = calculate_containment_ratio(call.args[1],
                                                                    call.args[2]) ]
    /\ UNCHANGED <<pipelinevars, runs, api>>

\* mask_scale arguments from 1.0 to 2.0 in quarters, which binary floating
\* point holds exactly
MaskScales == { <<q, 4>> : q \in 4..8 }

\* the boxes [x1, y1, x2, y2] with x1 <= x2 and y1 <= y2 from the origin on
SmallBoxes ==
    { <<x1, y1, x1 + w, y1 + h>> : x1 \in 0..MaxCoord, y1 \in 0..MaxCoord,
                                   w \in 0..MaxCoord, h \in 0..MaxCoord }

\* with mask_scale 1.3 the box [100,100,200,200] is away from every tie, and
\* the floating-point result is the exact one
ScaleCalls ==
    { [ fn |-> "scale_bb", args |-> <<b[1], b[2], b[3], b[4], ms>>,
        done |-> FALSE, result |-> None ] :
          b \in SmallBoxes, ms \in MaskScales }
    \cup { [ fn |-> "scale_bb", args |-> <<100, 100, 200, 200, ms>>,
             done |-> FALSE, result |-> None ] : ms \in { <<13, 10>>, <<10, 10>> } }

\* lines 312-319
CallScaleBB ==
    /\ call.fn = "scale_bb"
    /\ ~call.done
    /\ call' = [ call EXCEPT !.done = TRUE,
                             !.result = scale_bb(call.args[1], call.args[2],
                                                 call.args[3], call.args[4],
                                                 call.args[5]) ]
    /\ UNCHANGED <<pipelinevars, runs, api>>

\* detections [x1, y1, x2, y2, score] inside, across and outside the frame
FrameDets ==
    { <<x1, y1, x2, y2, 9>> :
        x1 \in -2..(FrameW + 1), y1 \in -2..(FrameH + 1),
        x2 \in -2..(FrameW + 1), y2 \in -2..(FrameH + 1) }

AnonymizeCalls ==
    { [ fn |-> "anonymize_frame", args |-> <<d, ms, FrameW, FrameH>>,
        done |-> FALSE, result |-> None ] :
          d \in { e \in FrameDets : e[1] <= e[3] /\ e[2] <= e[4] },
          ms \in MaskScales }

\* lines 369-387, up to the call of draw_det
CallAnonymizeBox ==
    /\ call.fn = "anonymize_frame"
    /\ ~call.done
    /\ call' = [ call EXCEPT !.done = TRUE,
                             !.result = anonymize_box(call.args[1], call.args[2],
                                                      call.args[3], call.args[4]) ]
    /\ UNCHANGED <<pipelinevars, runs, api>>

\* frames of FrameH rows and FrameW columns: the plain, striped and
\* chequered frames of two colours, and the frame whose pixels all differ
\* from one another and from ovcolor
Frames ==
    { [ y \in 0..(FrameH - 1) |-> [ x \in 0..(FrameW - 1) |-> (a * x + b * y + c) % 2 ] ] :
        a \in 0..1, b \in 0..1, c \in 0..1 }
    \cup { [ y \in 0..(FrameH - 1) |-> [ x \in 0..(FrameW - 1) |-> 1 + y * FrameW + x ] ] }

\* boxes [x1, y1, x2, y2] lying within the frame
InFrameBoxes ==
    { b \in { <<x1, y1, x2, y2>> : x1 \in 0..(FrameW - 1), y1 \in 0..(FrameH - 1),
                                   x2 \in 0..(FrameW - 1), y2 \in 0..(FrameH - 1) } :
        b[1] <= b[3] /\ b[2] <= b[4] }

DrawCalls ==
    { [ fn |-> "draw_det", args |-> <<f, b, mode[1], mode[2]>>,
        passes |-> 0, first |-> None, result |-> None ] :
          f \in Frames, b \in InFrameBoxes,
          mode \in { <<"solid", 1>> } \cup { <<"mosaic", m>> : m \in 1..MaxMosaic } }

\* lines 322-364: draw_det on the frame
DrawOnce ==
    /\ call.fn = "draw_det"
    /\ call.passes = 0
    /\ \E after \in { draw_det(call.args[1], call.args[2][1], call.args[2][2],
                                call.args[2][3], call.args[2][4],
                                call.args[3], call.args[4]) } :
          call' = [ call EXCEPT !.passes = 1, !.first = after, !.result = after ]
    /\ UNCHANGED <<pipelinevars, runs, api>>

\* lines 322-364: draw_det once more on the frame it left, with the same
\* box and parameters
DrawAgain ==
    /\ call.fn = "draw_det"
    /\ call.passes = 1
    /\ call' = [ call EXCEPT !.passes = 2,
                             !.result = draw_det(call.result, call.args[2][1],
                                                 call.args[2][2], call.args[2][3],
                                                 call.args[2][4], call.args[3],
                                                 call.args[4]) ]
    /\ UNCHANGED <<pipelinevars, runs, api>>

HelperInit ==
    /\ NoPipeline
    /\ runs = NoRuns
    /\ api = NoApi
    /\ \/ call \in ContainmentCalls
       \/ call \in ScaleCalls
       \/ call \in AnonymizeCalls
       \/ call \in DrawCalls

HelperNext ==
    \/ CallContainment
    \/ CallScaleBB
    \/ CallAnonymizeBox
    \/ DrawOnce
    \/ DrawAgain

HelperSpec == HelperInit /\ [][HelperNext]_vars

(***************************************************************************)
(* Concurrent requests.  The API server runs with threaded=True            *)
(* (api_service.py line 215): each request thread calls process_video,     *)
(* which calls process_video_with_selective_blurring and so video_detect.  *)
(* runs.locals maps an activation of video_detect to its tracking state    *)
(* (main.py lines 501-512) and runs.pc a request thread to its position;   *)
(* runs.actor is the run that took the last step and runs.touched the      *)
(* activations whose tracking state that step read or wrote.               *)
(***************************************************************************)
\* the two request threads
RunIds == {1, 2}

\* one activation record for the whole process
LocalsOf_ProcessWide(r) == 1

\* lines 501-512: the tracking state is made of local variables of
\* video_detect, so each run has the activation record of its own call
LocalsOf(r) == r

\* no call of video_detect in progress
NoLocals ==
    [ face_tracker |-> None, frames_without_faces |-> 0,
      target_person_found |-> FALSE, prev_bbox |-> None,
      MAX_FRAMES_WITHOUT_FACES |-> 1 ]

\* lines 501-512: the tracking state at the head of the frame loop
StartLocals(max_frames_without_faces) ==
    [ face_tracker |-> None, frames_without_faces |-> 0,
      target_person_found |-> FALSE, prev_bbox |-> None,
      MAX_FRAMES_WITHOUT_FACES |-> max_frames_without_faces ]

\* what centerface returns for a frame of a concurrent run: no face, one
\* face, or two faces of which both lie in the tracked region <<3, 0, 6, 1>>
ConcurrentDetLists ==
    { ds \in DetLists : Len(ds) <= 1 }
    \cup { << <<3, 0, 6, 1, 9>>, <<4, 0, 7, 1, 9>> >> }

\* what the person detector returns for a frame of a concurrent run
ConcurrentPersonLists ==
    { <<>>, << <<0, 0, 7, 2, 9, 0>> >>,
      << <<1, 0, 2, 1, 5, 0>>, <<0, 0, 7, 2, 9, 0>> >> }

ConcurrentInit ==
    /\ NoPipeline
    /\ call = NoCall
    /\ api = NoApi
    /\ runs = [ pc |-> [ r \in RunIds |-> "idle" ],
                locals |-> [ a \in RunIds |-> NoLocals ],
                actor |-> 0, touched |-> {} ]

\* api_service.py lines 133-144, main.py lines 501-512: a request reaches
\* video_detect, which initializes its tracking state
StartRun(r) ==
    /\ runs.pc[r] = "idle"
    /\ \E m \in 1..MaxMFWF :
          runs' = [ runs EXCEPT !.pc[r] = "loop",
                                !.locals[LocalsOf(r)] = StartLocals(m),
                                !.actor = r,
                                !.touched = { LocalsOf(r) } ]
    /\ UNCHANGED <<pipelinevars, call, api>>

\* main.py lines 514-692: one frame of run r
RunFrame(r) ==
    /\ runs.pc[r] = "loop"
    /\ runs.locals[LocalsOf(r)].frames_without_faces < MaxCount
    /\ \E l \in { runs.locals[LocalsOf(r)] } :
       \E ds \in ConcurrentDetLists :
       \E m \in (IF AcquisitionDue(l.target_person_found, l.face_tracker, ds)
                 THEN find_person_in_frame ELSE { None }) :
       \E s2 \in { Step2(l.target_person_found, l.face_tracker, l.prev_bbox, ds, m) } :
       \E u \in (IF s2.face_tracker # None THEN update_face_tracker ELSE { None }) :
       \E r1 \in (IF s2.face_tracker # None /\ u = None
                  THEN recover_tracking(s2.prev_bbox, ds) ELSE { None }) :
       \E s3 \in { Step3Update(s2, u, r1) } :
       \E n \in { InTrackedCount(ds, s3.tracked_bbox) } :
       \E pr \in (IF n > 1 THEN ConcurrentPersonLists ELSE { <<>> }) :
       \E r2 \in (IF n = 0 THEN recover_tracking(s3.prev_bbox, ds) ELSE { None }) :
       \E out \in { Step3Disambiguate(s3, l.frames_without_faces, ds, r2, pr,
                                      l.MAX_FRAMES_WITHOUT_FACES, FALSE) } :
          runs' = [ runs EXCEPT
                      !.locals[LocalsOf(r)] =
                          [ l EXCEPT !.face_tracker = out.face_tracker,
                                     !.frames_without_faces = out.frames_without_faces,
                                     !.target_person_found = out.target_person_found,
                                     !.prev_bbox = out.prev_bbox ],
                      !.actor = r,
                      !.touched = { LocalsOf(r) } ]
    /\ UNCHANGED <<pipelinevars, call, api>>

\* main.py lines 713-716: the frame loop of run r ends and video_detect
\* returns
FinishRun(r) ==
    /\ runs.pc[r] = "loop"
    /\ runs' = [ runs EXCEPT !.pc[r] = "idle",
                            !.locals[LocalsOf(r)] = NoLocals,
                            !.actor = r,
                            !.touched = { LocalsOf(r) } ]
    /\ UNCHANGED <<pipelinevars, call, api>>

ConcurrentNext ==
    \/ \E r \in RunIds : StartRun(r)
    \/ \E r \in RunIds : RunFrame(r)
    \/ \E r \in RunIds : FinishRun(r)

ConcurrentSpec == ConcurrentInit /\ [][ConcurrentNext]_vars

(***************************************************************************)
(* The /process-video endpoint (api_service.py lines 32-180), served by    *)
(* two request threads.  A filename is the sequence of its characters; the *)
(* requests name videos of one input directory.  api.files are the regular *)
(* files of that directory, api.links its symbolic links <<link, target>>, *)
(* api.req the position and the local variables of each request.          *)
(***************************************************************************)
\* characters the pattern [^\w\-_\.] of line 101 leaves alone
KeptChars == {"a", "b", "c", "_", "-", "."}

\* line 101: re.sub(r'[^\w\-_\.]', '_', input_filename)
sanitize(name) == [ i \in DOMAIN name |-> IF name[i] \in KeptChars THEN name[i] ELSE "_" ]

\* input filenames of the requests
InputNames == { <<"a", " ", "b">>, <<"a", "?", "b">>, <<"a", "_", "b">>, <<"c">> }

\* os.path.exists(path): follows a symbolic link to its target
path_exists(path, files, links) ==
    \/ path \in files
    \/ \E l \in links : l[1] = path /\ l[2] \in files

\* os.symlink raises FileExistsError when the link name is taken
name_taken(path, files, links) ==
    \/ path \in files
    \/ \E l \in links : l[1] = path

\* a request thread between two requests
NoRequest ==
    [ pc |-> "idle", video_path |-> <<>>, sanitized_input_path |-> <<>>,
      input_symlink_created |-> FALSE, makedirs_raises |-> FALSE,
      processing |-> "none", response |-> 0 ]

ApiInit ==
    /\ NoPipeline
    /\ call = NoCall
    /\ runs = NoRuns
    /\ \E files \in { InputNames, InputNames \ { <<"a", "_", "b">> } } :
          api = [ files |-> files, links |-> {},
                  req |-> [ r \in RunIds |-> NoRequest ] ]

\* lines 52-66: a request arrives; its output directory can or cannot be
\* created
ReceiveRequest(r) ==
    /\ api.req[r].pc \in {"idle", "done"}
    /\ \E v \in InputNames, raises \in BOOLEAN :
          api' = [ api EXCEPT !.req[r] =
                     [ NoRequest EXCEPT !.pc = "validate", !.video_path = v,
                                        !.makedirs_raises = raises ] ]
    /\ UNCHANGED <<pipelinevars, call, runs>>

\* lines 72-77: 404 when the video does not exist
ValidateRequest(r) ==
    /\ api.req[r].pc = "validate"
    /\ api' = IF path_exists(api.req[r].video_path, api.files, api.links)
              THEN [ api EXCEPT !.req[r].pc = "sanitize" ]
              ELSE [ api EXCEPT !.req[r].pc = "done", !.req[r].response = 404 ]
    /\ UNCHANGED <<pipelinevars, call, runs>>

\* lines 98-111: the sanitized path, and the test whether a link is needed
SanitizeInput(r) ==
    /\ api.req[r].pc = "sanitize"
    /\ \E sanitized_input_path \in { sanitize(api.req[r].video_path) } :
          api' = [ api EXCEPT
                     !.req[r].sanitized_input_path = sanitized_input_path,
                     !.req[r].pc =
                         IF /\ sanitized_input_path # api.req[r].video_path
                            /\ ~path_exists(sanitized_input_path, api.files, api.links)
                         THEN "symlink" ELSE "prepare" ]
    /\ UNCHANGED <<pipelinevars, call, runs>>

\* lines 107-108: os.symlink; when it raises, the handler of line 178
\* answers 500
CreateSymlink(r) ==
    /\ api.req[r].pc = "symlink"
    /\ api' = IF name_taken(api.req[r].sanitized_input_path, api.files, api.links)
              THEN [ api EXCEPT !.req[r].pc = "done", !.req[r].response = 500 ]
              ELSE [ api EXCEPT
                       !.links = @ \cup { <<api.req[r].sanitized_input_path,
                                             api.req[r].video_path>> },
                       !.req[r].input_symlink_created = TRUE,
                       !.req[r].pc = "prepare" ]
    /\ UNCHANGED <<pipelinevars, call, runs>>

\* lines 113-131: the output path and os.makedirs(output_dir); when it
\* raises, the handler of line 178 answers 500
PrepareOutput(r) ==
    /\ api.req[r].pc = "prepare"
    /\ api' = IF api.req[r].makedirs_raises
              THEN [ api EXCEPT !.req[r].pc = "done", !.req[r].response = 500 ]
              ELSE [ api EXCEPT !.req[r].pc = "processing",
                                !.req[r].processing = "running" ]
    /\ UNCHANGED <<pipelinevars, call, runs>>

\* lines 134-144: process_video_with_selective_blurring returns or raises
ProcessingEnds(r) ==
    /\ api.req[r].pc = "processing"
    /\ \E how \in {"returned", "raised"} :
          api' = [ api EXCEPT !.req[r].pc = "cleanup", !.req[r].processing = how ]
    /\ UNCHANGED <<pipelinevars, call, runs>>

\* lines 149-160 and 162-172: the link is removed if this request made it
\* and the path exists, and the response is returned
CleanupAndRespond(r) ==
    /\ api.req[r].pc = "cleanup"
    /\ api' = [ api EXCEPT
                  !.links =
                      IF /\ api.req[r].input_symlink_created
                         /\ path_exists(api.req[r].sanitized_input_path, api.files,
                                        api.links)
                      THEN { l \in @ : l[1] # api.req[r].sanitized_input_path }
                      ELSE @,
                  !.req[r].pc = "done",
                  !.req[r].response =
                      IF api.req[r].processing = "returned" THEN 200 ELSE 500 ]
    /\ UNCHANGED <<pipelinevars, call, runs>>

ApiNext ==
    \/ \E r \in RunIds : ReceiveRequest(r)
    \/ \E r \in RunIds : ValidateRequest(r)
    \/ \E r \in RunIds : SanitizeInput(r)
    \/ \E r \in RunIds : CreateSymlink(r)
    \/ \E r \in RunIds : PrepareOutput(r)
    \/ \E r \in RunIds : ProcessingEnds(r)
    \/ \E r \in RunIds : CleanupAndRespond(r)

ApiSpec == ApiInit /\ [][ApiNext]_vars

(***************************************************************************)
(* Vocabulary of the properties.  A frame's facts are read at pc = "write",*)
(* when the frame has been anonymized and not yet replaced by the next.    *)
(***************************************************************************)
AtFrameEnd == pc = "write"

\* d is in the list handed to the Anonymizer
InAnonymizationSet(d) == \E i \in 1..Len(dets) : dets[i] = d

\* twice the part of d inside box, against the area of d
InsideTwice(d, box) ==
    2 * calculate_containment_ratio(<<d[1], d[2], d[3] - d[1], d[4] - d[2]>>, box)[1]

AreaOf(d) == (d[3] - d[1]) * (d[4] - d[2])

\* containment ratio of d against box above, below one half
AboveHalf(d, box) == AreaOf(d) > 0 /\ InsideTwice(d, box) > AreaOf(d)

BelowHalf(d, box) == AreaOf(d) <= 0 \/ InsideTwice(d, box) < AreaOf(d)

\* the frame's detections that are in-region for its tracked bbox
InRegion ==
    IF fr.tracked_bbox = None THEN {}
    ELSE { i \in 1..Len(fr.detected) : AboveHalf(fr.detected[i], fr.tracked_bbox) }

\* two corner boxes share at least one point
CornersOverlap(a, b) == a[1] <= b[3] /\ b[1] <= a[3] /\ a[2] <= b[4] /\ b[2] <= a[4]

\* qualifying person boxes of the frame that overlap its tracked bbox
OverlappingPersons ==
    Cardinality({ i \in 1..Len(fr.person_boxes) :
                    CornersOverlap(fr.person_boxes[i], fr.tracked_bbox) })

\* the frame's detections whose box is the one recovery returned
RecoveredDetections(recovered_bbox) ==
    { i \in 1..Len(fr.detected) :
        <<fr.detected[i][1], fr.detected[i][2], fr.detected[i][3], fr.detected[i][4]>>
            = recovered_bbox }

(***************************************************************************)
(* C1.  In a frame with a tracked bbox and exactly one face detection of   *)
(* containment ratio above 0.5 against it, that detection is not in the    *)
(* anonymization set and frames_without_faces is 0 at the end of the frame.*)
(***************************************************************************)
C1_SingleFaceExcluded ==
    (AtFrameEnd /\ fr.tracked_bbox # None /\ Cardinality(InRegion) = 1)
        => /\ \A i \in InRegion : ~InAnonymizationSet(fr.detected[i])
           /\ frames_without_faces = 0

C1_Witness ==
    /\ AtFrameEnd
    /\ fr.start_tracking
    /\ fr.update = "ok"
    /\ Cardinality(InRegion) = 1
    /\ Len(fr.detected) = 2
    /\ Len(dets) = 1
    /\ fr.start_count > 0

(***************************************************************************)
(* C2.  With auto-reset enabled, a run of lost frames (update succeeds, no *)
(* detection in-region, recovery fails) begun in TRACKING with a zero      *)
(* counter ends, at its MAX_FRAMES_WITHOUT_FACES-th frame, in SEARCHING    *)
(* with the tracker discarded and the counter 0; after every earlier frame *)
(* of the run the status is still TRACKING.                                *)
(***************************************************************************)
C2_ResetAfterMaxLostFrames ==
    (AtFrameEnd /\ ~disable_tracker_reset /\ lostRun >= 1)
        => /\ lostRun <= MAX_FRAMES_WITHOUT_FACES
           /\ lostRun = MAX_FRAMES_WITHOUT_FACES
                => (status = "SEARCHING" /\ face_tracker = None /\ frames_without_faces = 0)
           /\ lostRun < MAX_FRAMES_WITHOUT_FACES => status = "TRACKING"

C2_Witness ==
    /\ AtFrameEnd
    /\ ~disable_tracker_reset
    /\ MAX_FRAMES_WITHOUT_FACES = 3
    /\ lostRun = 3
    /\ status = "SEARCHING"

(***************************************************************************)
(* C3.  frames_without_faces is higher at the end of a frame than at its   *)
(* start only if no detection was in-region and recovery failed.           *)
(***************************************************************************)
C3_IncrementOnlyWhenRecoveryFailed ==
    (AtFrameEnd /\ frames_without_faces > fr.start_count)
        => (fr.n_in_tracked = 0 /\ fr.recovery2 = "failed")

(***************************************************************************)
(* C4.  At the end of a frame in which a face was attributed to the target *)
(* (the single in-region face, a single-person group of in-region faces,   *)
(* or the recovered detection) frames_without_faces is 0.                  *)
(***************************************************************************)
C4_CounterZeroWhenFaceAttributed ==
    (AtFrameEnd /\ (\/ fr.n_in_tracked = 1
                    \/ (fr.n_in_tracked > 1 /\ fr.intersecting_persons <= 1)
                    \/ fr.recovery2 = "ok"))
        => frames_without_faces = 0

(***************************************************************************)
(* C5.  Status changes only by acquisition (SEARCHING to TRACKING) and by  *)
(* failed update with failed recovery, or by the counter passing its       *)
(* maximum with auto-reset enabled (TRACKING to SEARCHING).                *)
(*   C5_StatusChangesOriginal reads "passed" as exceeding the maximum;     *)
(*   C5_StatusChanges reads it as reaching the maximum.                    *)
(***************************************************************************)
C5_StatusChangesOriginal ==
    AtFrameEnd
        => /\ (~fr.start_tracking /\ status = "TRACKING") => fr.matcher = "acquired"
           /\ (fr.start_tracking /\ status = "SEARCHING")
                => \/ (fr.update = "failed" /\ fr.recovery1 = "failed")
                   \/ (~disable_tracker_reset /\ fr.count_peak > MAX_FRAMES_WITHOUT_FACES)

C5_StatusChanges ==
    AtFrameEnd
        => /\ (~fr.start_tracking /\ status = "TRACKING") => fr.matcher = "acquired"
           /\ (fr.start_tracking /\ status = "SEARCHING")
                => \/ (fr.update = "failed" /\ fr.recovery1 = "failed")
                   \/ (~disable_tracker_reset /\ fr.count_peak >= MAX_FRAMES_WITHOUT_FACES)

C5_Witness ==
    /\ AtFrameEnd
    /\ fr.start_tracking
    /\ status = "SEARCHING"
    /\ fr.update = "ok"
    /\ fr.count_peak = 3

(***************************************************************************)
(* C6.  In a frame where recovery succeeds, after a failed update or after *)
(* zero in-region detections, status is TRACKING with an active tracker at *)
(* the end of the frame.                                                   *)
(***************************************************************************)
C6_TrackingAfterRecovery ==
    (AtFrameEnd /\ (fr.recovery1 = "ok" \/ fr.recovery2 = "ok"))
        => (status = "TRACKING" /\ face_tracker # None)

(***************************************************************************)
(* C7.  In a frame where recovery succeeds, on either trigger, the         *)
(* recovered detection is not in the anonymization set.                    *)
(***************************************************************************)
C7_RecoveredDetectionExcluded ==
    AtFrameEnd
        => /\ fr.recovery1 = "ok"
                => \A i \in RecoveredDetections(fr.recovered1) :
                      ~InAnonymizationSet(fr.detected[i])
           /\ fr.recovery2 = "ok"
                => \A i \in RecoveredDetections(fr.recovered2) :
                      ~InAnonymizationSet(fr.detected[i])

(***************************************************************************)
(* C8.  Original: in every frame where recovery is triggered and fails,    *)
(* the status is SEARCHING at the end of the frame (C8_FailedRecovery-     *)
(* Original).  Amended: that holds after a failed update; after zero       *)
(* in-region detections the frame ends in TRACKING with the counter one    *)
(* higher, unless auto-reset is enabled and the incremented counter        *)
(* reaches the maximum, and only then in SEARCHING (C8_FailedRecovery).    *)
(***************************************************************************)
C8_FailedRecoveryOriginal ==
    (AtFrameEnd /\ (fr.recovery1 = "failed" \/ fr.recovery2 = "failed"))
        => status = "SEARCHING"

C8_FailedRecovery ==
    AtFrameEnd
        => /\ fr.recovery1 = "failed" => status = "SEARCHING"
           /\ fr.recovery2 = "failed"
                => IF ~disable_tracker_reset
                      /\ fr.start_count + 1 >= MAX_FRAMES_WITHOUT_FACES
                   THEN status = "SEARCHING" /\ frames_without_faces = 0
                   ELSE status = "TRACKING"
                        /\ frames_without_faces = fr.start_count + 1

C8_Witness ==
    /\ AtFrameEnd
    /\ fr.recovery2 = "failed"
    /\ Len(fr.detected) > 0
    /\ status = "TRACKING"
    /\ ~disable_tracker_reset

(***************************************************************************)
(* C9.  In a frame with more than one in-region detection where at most    *)
(* one qualifying person box overlaps the tracked bbox, every in-region    *)
(* detection is absent from the anonymization set and every detection of   *)
(* ratio below 0.5 is in it.                                               *)
(***************************************************************************)
C9_SinglePersonGroupExcluded ==
    (AtFrameEnd /\ Cardinality(InRegion) > 1 /\ OverlappingPersons <= 1)
        => /\ \A i \in InRegion : ~InAnonymizationSet(fr.detected[i])
           /\ \A i \in 1..Len(fr.detected) :
                 BelowHalf(fr.detected[i], fr.tracked_bbox)
                    => InAnonymizationSet(fr.detected[i])

(***************************************************************************)
(* C10.  In a frame with more than one in-region detection where more than *)
(* one qualifying person box overlaps the tracked bbox, the anonymization  *)
(* set is the frame's complete detection list and status stays TRACKING.   *)
(***************************************************************************)
C10_CrowdKeepsAllDetections ==
    (AtFrameEnd /\ Cardinality(InRegion) > 1 /\ OverlappingPersons > 1)
        => (dets = fr.detected /\ status = "TRACKING")

C10_Witness ==
    /\ AtFrameEnd
    /\ Cardinality(InRegion) > 1
    /\ OverlappingPersons > 1
    /\ fr.start_tracking
    /\ dets = fr.detected

\* rows of the person detector that are of class person with confidence of
\* at least 0.3 and whose corner box shares a point with the tracked bbox
QualifyingOverlappingRows ==
    { i \in 1..Len(fr.person_rows) :
        /\ fr.person_rows[i][6] = 0
        /\ fr.person_rows[i][5] >= 3
        /\ CornersOverlap(BoxOf(fr.person_rows[i]), fr.tracked_bbox) }

(***************************************************************************)
(* C11.  In the multi-face branch the number of person-detector results    *)
(* counted as intersecting is the number of results of class person with   *)
(* confidence of at least 0.3 whose corner box shares a point with the     *)
(* tracked bbox; a qualifying box that does not overlap is not counted.    *)
(***************************************************************************)
C11_IntersectingCountedByCorners ==
    (AtFrameEnd /\ fr.n_in_tracked > 1)
        => fr.intersecting_persons = Cardinality(QualifyingOverlappingRows)

(***************************************************************************)
(* C12.  The person detector is invoked in a frame only if the frame began *)
(* in SEARCHING with at least one face detection, or the frame is in       *)
(* TRACKING with more than one in-region detection; never with zero face   *)
(* detections and never in a frame that began in TRACKING with zero or one *)
(* in-region detection.                                                    *)
(***************************************************************************)
C12_PersonDetectorOnlyWhenNeeded ==
    AtFrameEnd =>
        /\ fr.person_calls > 0
              => \/ (~fr.start_tracking /\ Len(fr.detected) > 0)
                 \/ (fr.tracked_bbox # None /\ fr.n_in_tracked > 1)
        /\ Len(fr.detected) = 0 => fr.person_calls = 0
        /\ (fr.start_tracking /\ fr.n_in_tracked <= 1) => fr.person_calls = 0

C12_Witness ==
    /\ AtFrameEnd
    /\ fr.start_tracking
    /\ fr.n_in_tracked > 1
    /\ fr.person_calls = 1

(***************************************************************************)
(* C13.  The Target Matcher is invoked in a frame only if no tracker is    *)
(* active at the start of the frame and the frame has at least one         *)
(* detection; Disambiguation is performed only if a tracker is active and  *)
(* produced a tracked bbox in that frame.                                  *)
(***************************************************************************)
C13_MatcherAndDisambiguationGuards ==
    AtFrameEnd =>
        /\ fr.matcher # "skipped"
              => (fr.start_tracker = None /\ Len(fr.detected) > 0)
        /\ fr.n_in_tracked # -1
              => /\ fr.tracked_bbox # None
                 /\ fr.update = "ok" \/ fr.recovery1 = "ok"
                 /\ fr.update # "skipped"

C13_Witness ==
    /\ AtFrameEnd
    /\ fr.matcher = "acquired"
    /\ fr.start_tracker = None
    /\ fr.n_in_tracked = 1
    /\ fr.update = "ok"

(***************************************************************************)
(* C14.  In a frame that begins in SEARCHING and in which the Target       *)
(* Matcher is not run or returns no acquisition, the anonymization set is  *)
(* the frame's complete detection list and status is SEARCHING at the end  *)
(* of the frame.                                                           *)
(***************************************************************************)
C14_SearchingAnonymizesAll ==
    (AtFrameEnd /\ ~fr.start_tracking /\ fr.matcher \in {"skipped", "none"})
        => (dets = fr.detected /\ status = "SEARCHING")

C14_Witness ==
    /\ AtFrameEnd
    /\ ~fr.start_tracking
    /\ fr.matcher = "none"
    /\ Len(fr.detected) = 2
    /\ dets = fr.detected

(***************************************************************************)
(* Properties of a run on a video file (RunSpec) and of the setup that     *)
(* precedes it (SetupSpec).                                                *)
(***************************************************************************)
\* the frames appended so far are the first input frames, in input order
WrittenInOrder == \A i \in 1..Len(written) : written[i] = i

(***************************************************************************)
(* C15.  With an output path set, video_detect appends exactly one frame   *)
(* to the writer per input frame, in input order, whatever the tracking    *)
(* state of the frames; when the input of N frames is exhausted the writer *)
(* has received exactly N frames.                                          *)
(***************************************************************************)
C15_OneFrameWrittenPerInputFrame ==
    (opath /\ writer # "none") =>
        /\ WrittenInOrder
        /\ vd_exit \in {"none", "completed", "interrupt"}
              => Len(written) = (IF pc = "write" THEN read_count - 1 ELSE read_count)
        /\ vd_exit = "completed" => Len(written) = nframes

C15_Witness ==
    /\ opath
    /\ vd_exit = "completed"
    /\ nframes = MaxFrames
    /\ Len(written) = MaxFrames
    /\ target_person_found

(***************************************************************************)
(* C16.  Whenever video_detect has been left after its reader was opened   *)
(* (input exhausted, a collaborator raised in a frame, the writer could    *)
(* not be created, interrupt), the reader is closed and the writer, if one *)
(* was created, is closed.                                                 *)
(***************************************************************************)
C16_ReaderAndWriterClosedOnExit ==
    (vd_exit # "none" /\ reader # "none")
        => (reader = "closed" /\ writer \in {"none", "closed"})

(***************************************************************************)
(* C17.  If the video container cannot be opened or its metadata cannot be *)
(* read, process_video_with_selective_blurring does not end with a result  *)
(* reporting success.                                                      *)
(***************************************************************************)
C17_OpenFailureSurfaced ==
    vd_exit = "returned_early" => outcome # "success"

(***************************************************************************)
(* C18.  If the video path or the target person directory does not exist,  *)
(* process_video_with_selective_blurring raises a not-found error before   *)
(* any model, tracker, reader or writer is created.                        *)
(***************************************************************************)
C18_NotFoundBeforeAnyModel ==
    (~video_exists \/ ~target_dir_exists)
        => /\ created = {}
           /\ face_tracker = None
           /\ reader = "none" /\ writer = "none"
           /\ ~video_detect_called
           /\ stage \in {"validate", "ended"}
           /\ stage = "ended" => outcome = "FileNotFoundError"

C18_Witness ==
    /\ stage = "ended"
    /\ outcome = "FileNotFoundError"
    /\ video_exists
    /\ ~target_dir_exists
    /\ created = {}

\* no image of the target directory yields an embedding
NoEmbeddingExtractable ==
    \A i \in 1..Len(target_images) : target_images[i] # "person"

(***************************************************************************)
(* C19.  If the target directory holds no image file, or no embedding can  *)
(* be extracted from any of its images (also when every image fails to     *)
(* load or raises), process_video_with_selective_blurring raises a         *)
(* validation error and video_detect is never called.                      *)
(***************************************************************************)
C19_NoEmbeddingIsValidationError ==
    (video_exists /\ target_dir_exists /\ NoEmbeddingExtractable)
        => /\ ~video_detect_called
           /\ reader = "none"
           /\ stage \in {"validate", "models", "targets", "ended"}
           /\ stage = "ended" => outcome = "ValueError"

C19_Witness ==
    /\ stage = "ended"
    /\ outcome = "ValueError"
    /\ ~video_detect_called
    /\ Len(target_images) = 2
    /\ target_images[1] = "raises"
    /\ target_images[2] = "unreadable"

(***************************************************************************)
(* C20.  If a collaborator raises while frame k is processed, no frame     *)
(* after k is processed or written (frame k is the last one taken and only *)
(* earlier frames are in the output), and                                  *)
(* process_video_with_selective_blurring ends with a failure, not with a   *)
(* success result.                                                         *)
(***************************************************************************)
C20_FrameExceptionAbortsRun ==
    vd_exit = "frame_error"
        => /\ stage = "ended"
           /\ outcome = "raised"
           /\ read_count = raised_at
           /\ pc = "read"
           /\ \A i \in 1..Len(written) : written[i] < raised_at

C20_Witness ==
    /\ vd_exit = "frame_error"
    /\ raised_at = 2
    /\ written = <<1>>
    /\ target_person_found
    /\ outcome = "raised"

(***************************************************************************)
(* C21.  With disable_tracker_reset set, frames_without_faces never causes *)
(* a transition: however many zero-in-region frames follow one another, a  *)
(* frame that began in TRACKING ends in SEARCHING only if its tracker      *)
(* update failed and recovery failed.                                      *)
(***************************************************************************)
C21_NoResetWhenDisabled ==
    (AtFrameEnd /\ disable_tracker_reset /\ fr.start_tracking /\ status = "SEARCHING")
        => (fr.update = "failed" /\ fr.recovery1 = "failed")

C21_Witness ==
    /\ AtFrameEnd
    /\ disable_tracker_reset
    /\ fr.start_tracking
    /\ fr.n_in_tracked = 0
    /\ frames_without_faces > MAX_FRAMES_WITHOUT_FACES
    /\ status = "TRACKING"

(***************************************************************************)
(* C27.  In a frame where the tracker update fails and recovery fails, the *)
(* tracker is discarded, disambiguation is skipped, the anonymization set  *)
(* is the frame's complete detection list and frames_without_faces keeps   *)
(* the value it had at the start of the frame.                             *)
(***************************************************************************)
C27_UpdateAndRecoveryFailed ==
    (AtFrameEnd /\ fr.update = "failed" /\ fr.recovery1 = "failed")
        => /\ face_tracker = None
           /\ fr.tracked_bbox = None
           /\ fr.n_in_tracked = -1
           /\ fr.recovery2 = "none"
           /\ dets = fr.detected
           /\ frames_without_faces = fr.start_count

C27_Witness ==
    /\ AtFrameEnd
    /\ fr.start_tracking
    /\ fr.update = "failed"
    /\ fr.recovery1 = "failed"
    /\ fr.start_count > 0
    /\ Len(fr.detected) = 2
    /\ dets = fr.detected

(***************************************************************************)
(* C28.  The person detector is invoked at most once per frame: a frame in *)
(* which it ran during acquisition reuses the result in its multi-face     *)
(* branch, and a frame that skipped acquisition and enters the multi-face  *)
(* branch runs it anew, holding no result of an earlier frame.             *)
(***************************************************************************)
C28_PersonDetectorOncePerFrame ==
    AtFrameEnd =>
        /\ fr.person_calls <= 1
        /\ (fr.matcher # "skipped" /\ fr.n_in_tracked > 1) => fr.person_calls = 1
        /\ (fr.matcher = "skipped" /\ fr.n_in_tracked > 1) => fr.person_calls = 1

C28_Witness ==
    /\ AtFrameEnd
    /\ fr.matcher = "acquired"
    /\ fr.n_in_tracked > 1
    /\ fr.person_calls = 1

\* positions of the frame's detections whose ratio against box exceeds 0.5
AboveHalfPositions(box) ==
    { i \in 1..Len(fr.detected) : AboveHalf(fr.detected[i], box) }

C30_OnlyTheTargetExcluded ==
    (AtFrameEnd /\ fr.tracked_bbox # None /\ Cardinality(InRegion) = 1)
        => \A i \in 1..Len(fr.detected) :
              IF i \in InRegion
              THEN ~InAnonymizationSet(fr.detected[i])
              ELSE InAnonymizationSet(fr.detected[i])

(***************************************************************************)
(* Properties of the helper functions (HelperSpec).                        *)
(***************************************************************************)
\* the call of calculate_containment_ratio has been made
ContainmentDone == call.fn = "calculate_containment_ratio" /\ call.done

\* a positive-area det_box [x, y, w, h] lies wholly inside the corner box t
WhollyInside(d, t) ==
    /\ d[3] > 0 /\ d[4] > 0
    /\ t[1] <= d[1] /\ d[1] + d[3] <= t[3]
    /\ t[2] <= d[2] /\ d[2] + d[4] <= t[4]

\* two well-formed boxes share no point
Disjoint(d, t) ==
    /\ d[3] >= 0 /\ d[4] >= 0 /\ t[1] <= t[3] /\ t[2] <= t[4]
    /\ \/ d[1] + d[3] < t[1]
       \/ t[3] < d[1]
       \/ d[2] + d[4] < t[2]
       \/ t[4] < d[2]

(***************************************************************************)
(* C22.  calculate_containment_ratio returns 1 for every positive-area     *)
(* detection box lying wholly inside the tracking box, 0 for every pair of *)
(* disjoint boxes and for every zero-area detection box, and a value in    *)
(* [0, 1] for all integer boxes of the range.                              *)
(***************************************************************************)
C22_ContainmentRatioValues ==
    ContainmentDone =>
        LET d == call.args[1]
            t == call.args[2]
            num == call.result[1]
            den == call.result[2]
        IN  /\ den > 0 /\ 0 <= num /\ num <= den
            /\ WhollyInside(d, t) => num = den
            /\ Disjoint(d, t) => num = 0
            /\ d[3] * d[4] = 0 => num = 0

C22_Witness ==
    /\ ContainmentDone
    /\ WhollyInside(call.args[1], call.args[2])
    /\ call.args[1][3] < call.args[2][3] - call.args[2][1]
    /\ call.result[1] = call.result[2]

\* the call of scale_bb has been made
ScaleDone == call.fn = "scale_bb" /\ call.done

Abs(n) == IF n >= 0 THEN n ELSE -n

\* the integer c is within half a unit of the fraction n / d
WithinHalf(c, n, d) == 2 * Abs(c * d - n) <= d

\* the fraction n / d lies halfway between two integers
IsTie(n, d) == (2 * n) % (2 * d) = d

\* the amount (mask_scale - 1) * width and (mask_scale - 1) * height of
\* the call, over the denominator of mask_scale
ScaleDX == (call.args[3] - call.args[1]) * (call.args[5][1] - call.args[5][2])

ScaleDY == (call.args[4] - call.args[2]) * (call.args[5][1] - call.args[5][2])

(***************************************************************************)
(* C23 as claimed.  scale_bb moves each side of a box outward by           *)
(* (mask_scale - 1) times the width (left, right) or height (top, bottom), *)
(* rounded to an integer, so that the box centre is unchanged;             *)
(* [100,100,200,200] with mask_scale 1.3 gives [70,70,230,230] and         *)
(* mask_scale 1.0 returns the box unchanged.                               *)
(***************************************************************************)
C23_ScaleAboutCentreOriginal ==
    ScaleDone =>
        LET den == call.args[5][2]
            dx == call.args[1] - call.result[1]
            dy == call.args[2] - call.result[2]
        IN  /\ WithinHalf(dx, ScaleDX, den)
            /\ WithinHalf(dy, ScaleDY, den)
            /\ call.result[3] = call.args[3] + dx
            /\ call.result[4] = call.args[4] + dy
            /\ call.result[1] + call.result[3] = call.args[1] + call.args[3]
            /\ call.result[2] + call.result[4] = call.args[2] + call.args[4]
            /\ call.args = <<100, 100, 200, 200, <<13, 10>>>>
                  => call.result = <<70, 70, 230, 230>>
            /\ call.args[5][1] = call.args[5][2]
                  => call.result = <<call.args[1], call.args[2], call.args[3], call.args[4]>>

(***************************************************************************)
(* C23 as amended.  scale_bb moves each side outward by (mask_scale - 1)   *)
(* times the width or height and rounds each resulting coordinate to the   *)
(* nearest integer, a tie going to the even integer: every coordinate is   *)
(* within half a pixel of its exact place, the centre is unchanged unless  *)
(* the coordinates fall on ties, where each is even and the centre moves   *)
(* by at most half a pixel; the two examples hold.                         *)
(***************************************************************************)
C23_ScaleRoundsEachCoordinate ==
    ScaleDone =>
        LET den == call.args[5][2]
        IN  /\ WithinHalf(call.result[1], call.args[1] * den - ScaleDX, den)
            /\ WithinHalf(call.result[3], call.args[3] * den + ScaleDX, den)
            /\ WithinHalf(call.result[2], call.args[2] * den - ScaleDY, den)
            /\ WithinHalf(call.result[4], call.args[4] * den + ScaleDY, den)
            /\ IF IsTie(ScaleDX, den)
               THEN /\ call.result[1] % 2 = 0 /\ call.result[3] % 2 = 0
                    /\ Abs(call.result[1] + call.result[3]
                             - call.args[1] - call.args[3]) <= 1
               ELSE call.result[1] + call.result[3] = call.args[1] + call.args[3]
            /\ IF IsTie(ScaleDY, den)
               THEN /\ call.result[2] % 2 = 0 /\ call.result[4] % 2 = 0
                    /\ Abs(call.result[2] + call.result[4]
                             - call.args[2] - call.args[4]) <= 1
               ELSE call.result[2] + call.result[4] = call.args[2] + call.args[4]
            /\ call.args = <<100, 100, 200, 200, <<13, 10>>>>
                  => call.result = <<70, 70, 230, 230>>
            /\ call.args[5][1] = call.args[5][2]
                  => call.result = <<call.args[1], call.args[2], call.args[3], call.args[4]>>

C23_Witness ==
    /\ ScaleDone
    /\ IsTie(ScaleDX, call.args[5][2])
    /\ call.result[1] + call.result[3] # call.args[1] + call.args[3]
    /\ call.result[2] + call.result[4] = call.args[2] + call.args[4]

(***************************************************************************)
(* C24.  For every detection box, also one lying partly or wholly outside  *)
(* the frame, the box anonymize_frame passes to draw_det after scaling and *)
(* clipping lies within the frame: 0 <= x1 <= x2 <= width - 1 and          *)
(* 0 <= y1 <= y2 <= height - 1.                                            *)
(***************************************************************************)
C24_DrawnBoxWithinFrame ==
    (call.fn = "anonymize_frame" /\ call.done)
        => /\ 0 <= call.result[1]
           /\ call.result[1] <= call.result[3]
           /\ call.result[3] <= call.args[3] - 1
           /\ 0 <= call.result[2]
           /\ call.result[2] <= call.result[4]
           /\ call.result[4] <= call.args[4] - 1

(***************************************************************************)
(* C25.  draw_det in mode solid, or in mode mosaic, applied twice to the   *)
(* same in-frame box with the same parameters leaves the frame as one      *)
(* application left it, pixel for pixel.                                   *)
(***************************************************************************)
C25_SolidAndMosaicIdempotent ==
    (call.fn = "draw_det" /\ call.passes = 2 /\ call.args[3] \in {"solid", "mosaic"})
        => call.result = call.first

C25_Witness ==
    /\ call.fn = "draw_det"
    /\ call.passes = 2
    /\ call.args[3] = "mosaic"
    /\ call.args[4] = 2
    /\ call.args[2][3] - call.args[2][1] >= 3
    /\ call.args[2][4] - call.args[2][2] >= 1
    /\ call.first # call.args[1]
    /\ call.result = call.first

\* tracker handle, status, framesWithoutFace and last tracked bbox of run r
TrackingStateOf(r) ==
    LET l == runs.locals[LocalsOf(r)]
    IN  <<l.face_tracker, Status(l.target_person_found, l.face_tracker),
          l.frames_without_faces, l.prev_bbox>>

(***************************************************************************)
(* C26.  Of two runs executing concurrently, a step of one run reads and   *)
(* writes the tracking state of that run only: tracker handle, status,     *)
(* counter and last tracked bbox of the other run are as before the step.  *)
(***************************************************************************)
C26_RunsDoNotShareTrackingState ==
    [][ \A r \in RunIds :
          runs'.actor # r =>
              /\ TrackingStateOf(r)' = TrackingStateOf(r)
              /\ r \notin runs'.touched ]_vars

C26_Witness ==
    /\ runs # NoRuns
    /\ runs.actor = 2
    /\ runs.pc[2] = "loop"
    /\ runs.locals[2].face_tracker = None
    /\ runs.pc[1] = "loop"
    /\ runs.locals[1].face_tracker # None
    /\ runs.locals[1].frames_without_faces > 0
    /\ runs.locals[1].prev_bbox # None

\* positions of the frame's detections that are not handed to the Anonymizer
LeftOut == { i \in 1..Len(fr.detected) : ~InAnonymizationSet(fr.detected[i]) }

\* containment ratio of d against box exactly one half
ExactlyHalf(d, box) == AreaOf(d) > 0 /\ InsideTwice(d, box) = AreaOf(d)

(***************************************************************************)
(* C31.  At the end of every frame, each face detection left out of the    *)
(* anonymization set has containment ratio >= 0.5 against the frame's      *)
(* tracked bbox or > 0.5 against the bbox recovered in that frame; in a    *)
(* frame without a tracked bbox no detection is left out.                  *)
(***************************************************************************)
C31_LeftOutOnlyNearTheTarget ==
    AtFrameEnd
        => IF fr.tracked_bbox = None
           THEN LeftOut = {}
           ELSE \A i \in LeftOut :
                   \/ ~BelowHalf(fr.detected[i], fr.tracked_bbox)
                   \/ /\ fr.recovery2 = "ok"
                      /\ AboveHalf(fr.detected[i], fr.recovered2)

C31_Witness ==
    /\ AtFrameEnd
    /\ fr.tracked_bbox # None
    /\ \E i \in LeftOut : ExactlyHalf(fr.detected[i], fr.tracked_bbox)
    /\ \E i \in 1..Len(fr.detected) : i \notin LeftOut

(***************************************************************************)
(* C32.  At every frame boundary the tracker handle is absent exactly when *)
(* target_person_found is false, after any sequence of acquisitions,       *)
(* tracker failures, recoveries and resets.                                *)
(***************************************************************************)
C32_TrackerAndFoundAgree ==
    (pc \in {"read", "write"}) => ((face_tracker = None) <=> ~target_person_found)

C32_Witness ==
    /\ AtFrameEnd
    /\ fr.start_tracking
    /\ fr.update = "ok"
    /\ fr.recovery2 = "failed"
    /\ ~disable_tracker_reset
    /\ fr.count_peak >= MAX_FRAMES_WITHOUT_FACES
    /\ face_tracker = None
    /\ ~target_person_found

(***************************************************************************)
(* C33.  With auto-reset enabled (and MAX_FRAMES_WITHOUT_FACES >= 1), at   *)
(* every frame boundary 0 <= frames_without_faces <                        *)
(* MAX_FRAMES_WITHOUT_FACES, and over a frame the counter rises by at most *)
(* one or is set to 0.                                                     *)
(***************************************************************************)
C33_CounterBelowMaximum ==
    (~disable_tracker_reset /\ MAX_FRAMES_WITHOUT_FACES >= 1)
        => /\ 0 <= frames_without_faces
           /\ frames_without_faces < MAX_FRAMES_WITHOUT_FACES
           /\ AtFrameEnd
                => \/ frames_without_faces <= fr.start_count + 1
                   \/ frames_without_faces = 0

C33_Witness ==
    /\ AtFrameEnd
    /\ ~disable_tracker_reset
    /\ MAX_FRAMES_WITHOUT_FACES = MaxMFWF
    /\ fr.start_count = MAX_FRAMES_WITHOUT_FACES - 2
    /\ frames_without_faces = MAX_FRAMES_WITHOUT_FACES - 1
    /\ fr.recovery2 = "failed"

(***************************************************************************)
(* C34.  At every frame boundary at which the status is SEARCHING,         *)
(* frames_without_faces is 0, so that a newly acquired track counts its    *)
(* lost frames from zero.                                                  *)
(***************************************************************************)
C34_CounterZeroWhileSearching ==
    (pc \in {"read", "write"} /\ status = "SEARCHING") => frames_without_faces = 0

\* the link request r made is still in the input directory
OwnLinkLeft(r, a) ==
    /\ a.req[r].input_symlink_created
    /\ <<a.req[r].sanitized_input_path, a.req[r].video_path>> \in a.links

(***************************************************************************)
(* C35.  Every input symlink created by a /process-video request is        *)
(* removed before the request returns its response, on the success path    *)
(* and on every error path that follows the creation of the link.          *)
(***************************************************************************)
C35_SymlinkRemovedBeforeResponse ==
    [][ \A r \in RunIds :
          (api.req[r].pc # "done" /\ api'.req[r].pc = "done") => ~OwnLinkLeft(r, api') ]_vars

\* the path request r handed to the processing names something
InputPresent(r, a) ==
    name_taken(a.req[r].sanitized_input_path, a.files, a.links)

(***************************************************************************)
(* C36.  When two /process-video requests whose input filenames sanitize   *)
(* to the same path run concurrently, the sanitized input path one request *)
(* passed to the processing is not unlinked by the other request while the *)
(* first is still processing.                                              *)
(***************************************************************************)
C36_InputNotUnlinkedWhileProcessing ==
    [][ \A r \in RunIds :
          (/\ api.req[r].pc = "processing"
           /\ api'.req[r].pc = "processing"
           /\ InputPresent(r, api))
              => InputPresent(r, api') ]_vars
====
